---- MODULE Spec2Model ----
(***************************************************************************)
(* The session manager of the real-time meeting translator                 *)
(* (audio-recognition-system/main.py, recognition/speech_recognition.py,   *)
(* audio/simple_capture.py): the pause / resume / shutdown state machine   *)
(* of SimpleAudioRecognitionSystem, its threads, the streaming sessions of *)
(* SimpleStreamingSpeechRecognition and the capture loop of                *)
(* SimpleAudioCapture.                                                     *)
(*                                                                         *)
(* Threads are interleaved at the granularity of their synchronisation     *)
(* points: a `with self.state_lock:` block that does not sleep is one      *)
(* step, a block that sleeps while holding the lock is two (take, give     *)
(* back), and a statement outside the lock that reads or writes a shared   *)
(* field is one step.  time.sleep() outside the lock is a scheduling point *)
(* and nothing else: the clock advances by Tick at any moment.             *)
(***************************************************************************)
EXTENDS Integers, Sequences, FiniteSets, TLC

\* ---------------------------------------------------------------- values
\* class SystemState(Enum)
ACTIVE == "active"
PAUSED == "paused"
WAITING_INPUT == "waiting"
AUTHENTICATING == "authenticating"
SHUTTING_DOWN == "shutdown"
SystemStates == {ACTIVE, PAUSED, WAITING_INPUT, AUTHENTICATING, SHUTTING_DOWN}

\* The debug profile's thresholds, in seconds.
SILENCE_TIMEOUT == 30
MAX_RUNTIME == 60

\* The limit of one connection, in seconds.
max_streaming_duration == 300

\* audio_queue.put(None): the termination sentinel.  A frame is written as a
\* record (its bytes are not modelled): `before` is the set of supervisors
\* that opened a session after the frame was queued, {} when it is queued;
\* `seq` is the frame's number in the order of acceptance, 0 where frames
\* are not numbered.
Sentinel == [before |-> {"None"}, seq |-> 0]

\* ---------------------------------------------------------------- bounds
\* The clock starts at T0 (time.time() is never 0) and advances in steps of
\* TickStep seconds up to MaxNow.
TickStep == 31
MaxNow == 70
\* How many times the operator resumes.
MaxResumes == 1
\* The audio queue holds at most MaxQueue entries in the model.
MaxQueue == 2
\* The result queue holds at most MaxResults finals waiting to be processed.
MaxResults == 1
\* How many placeholder identifiers are handed out.
MaxIds == 2
\* A response of the service carries at most MaxResponse results.
MaxResponse == 2
\* Frames are numbered up to MaxFrames, at most MaxSent frames are forwarded.
MaxFrames == 3
MaxSent == 3
\* The scenario's clock advances by ScenarioStep seconds.
ScenarioStep == 1

\* The pool of thread identities for the supervisor threads (_resume_system
\* starts a new one each time).  The capture threads have no state of their
\* own beyond their position, and are counted.
Sups == {"sup1", "sup2"}
FREE == "free"

\* What the operator can type on stdin; EOF closes it.
Commands == {"", "q", "x", "other", "EOF"}
NoInput == "none"

\* Lines as the operator types them, and what `.strip().lower()` makes of
\* each: the command the two readers compare with '', 'q' and 'x'.
Lines == {"", " ", "q", " Q", "x", "X ", "other"}
Normalise(l) ==
  CASE l = " " -> ""
    [] l = " Q" -> "q"
    [] l = "X " -> "x"
    [] OTHER -> l

\* What a reader that received cmd has read: one of the lines that
\* normalise to it, or, for a time-out of select() and for EOFError, no line.
ReadAs(cmd) ==
  IF cmd \in {NoInput, "EOF"} THEN {cmd} ELSE {l \in Lines : Normalise(l) = cmd}

VARIABLES
  system_state,        \* self.system_state
  state_lock,          \* self.state_lock: FREE or the thread that holds it
  is_running,          \* self.is_running (threading.Event)
  now,                 \* time.time()
  program_start_time,  \* self.program_start_time (0: None)
  last_speech_time,    \* self.last_speech_time (0: None)
  main_pc,             \* position of the main thread in run()
  kb_pc,               \* position of keyboard_monitor_thread
  mon_pc,              \* position of timeout_monitor_thread (and of the pause sequence it runs)
  sup_pc,              \* position of each _continuous_speech_recognition_thread
  sup_count,           \* its reconnection_count, capped at 2 (only "== 1" is read)
  cap_starting,        \* start_capture threads started that have not yet set is_running
  cap_looping,         \* start_capture threads inside `while self.is_running:`
  cap_is_running,      \* audio_capture.is_running
  streaming_active,    \* speech_recognition.streaming_active
  audio_queue,         \* speech_recognition.audio_queue
  gen,                 \* per supervisor: its session's _audio_generator is running
  stale_forwarded,     \* a session has forwarded a frame enqueued before it started
  resumes,             \* number of _resume_system calls so far
  pauses,              \* ACTIVE -> PAUSED transitions since start-up or the last resume
  docs_writer,         \* self.docs_writer is not None
  disable_translation, \* mvp_config.disable_translation
  transcription_only,  \* mvp_config.transcription_only
  current_placeholder_id, \* self.current_placeholder_id (0: None)
  active_placeholders, \* the keys of self.active_placeholders
  result_queue,        \* self.result_queue: the placeholder id of each queued final (0: None)
  next_id,             \* the next identifier uuid4() hands out
  final_lost,          \* the service returned a final that never reached the callback
  next_frame,          \* the number the next accepted frame gets (0: frames are not numbered)
  sent,                \* per supervisor, the numbers its present session forwarded, in order
  sent_all,            \* the numbers of all frames forwarded so far, in order
  scenario,            \* the run is the twelve-minute scenario (fixed at the start)
  streaming_start_time, \* speech_recognition.streaming_start_time (0: None)
  reconnects,          \* in the scenario: calls of _reset_for_reconnection so far
  finals_returned,     \* in the scenario: finals the service has returned
  results_taken,       \* in the scenario: entries result_processing_thread has taken
  recording,           \* which of the records below the run keeps: "off",
                       \* "ends", "lines" or "results" (fixed at the start)
  last_end,            \* per supervisor: how its last session ended
  line,                \* the last line a thread read from stdin, as typed
  rp_last,             \* what result_processing_thread did with the last final it took
  file_pc,             \* FileAudioCapture: the position of the thread in start_capture ("off": none)
  file_is_running,     \* FileAudioCapture.is_running
  current_chunk,       \* start_capture's current_chunk
  file_out,            \* what callback_func has been called with, in order
  file_len,            \* len(self.audio_data), in samples
  chunk_size           \* FileAudioCapture.chunk_size

coord == <<system_state, state_lock, is_running>>
timers == <<program_start_time, last_speech_time>>
ctl == <<main_pc, kb_pc, mon_pc>>
supv == <<sup_pc, sup_count, gen>>
capv == <<cap_starting, cap_looping, cap_is_running>>
audio == <<streaming_active, audio_queue>>
hist == <<resumes, pauses, stale_forwarded>>
cfg == <<docs_writer, disable_translation, transcription_only>>
pipe == <<current_placeholder_id, active_placeholders, result_queue, next_id>>
order == <<next_frame, sent, sent_all>>
scen == <<scenario, streaming_start_time, reconnects, finals_returned, results_taken>>
obs == <<final_lost, order, scen>>
rec == <<recording, last_end, line, rp_last>>
filev == <<file_pc, file_is_running, current_chunk, file_out, file_len, chunk_size>>
vars == <<coord, now, timers, ctl, supv, capv, audio, hist, cfg, pipe, obs, rec, filev>>

\* The record of the line a reader has just received.
Read(l) == IF recording = "lines" THEN l ELSE line

\* A `with` block whose end leaves the lock with the thread.
KeepLock(l) == l

\* The end of a `with self.state_lock:` block (here by `continue` after the
\* sleep): the lock is released.
Released(l) == FREE

\* A lock that serialises nothing.
NoLock(l) == TRUE

\* `with self.state_lock:` is entered when no thread holds the lock.
acquire(l) == l = FREE

\* The process is gone once run() has returned: main() returns and the
\* daemon threads die with the interpreter.
Exited == main_pc = "returned"
Alive == ~Exited

\* ---------------------------------------------------------------- helpers
\* SimpleAudioCapture.stop_capture
stop_capture == cap_is_running' = FALSE

\* SimpleStreamingSpeechRecognition.stop_recognition: the flag is cleared and
\* the sentinel is put on the queue.
stop_recognition ==
  /\ streaming_active' = FALSE
  /\ audio_queue' = Append(audio_queue, Sentinel)

\* ---------------------------------------------------------------- the clock
Tick ==
  /\ Alive
  /\ now + TickStep <= MaxNow
  /\ now' = now + TickStep
  /\ UNCHANGED <<coord, timers, ctl, supv, capv, audio, hist, cfg, pipe, obs, rec, filev>>

\* ---------------------------------------------------------------- main thread
\* run(): `with self.state_lock: if self.system_state == SHUTTING_DOWN: break`
MainLoopCheck ==
  /\ main_pc = "loop"
  /\ acquire(state_lock)
  /\ system_state = SHUTTING_DOWN
  /\ main_pc' = "returned"
  /\ UNCHANGED <<coord, now, timers, kb_pc, mon_pc, supv, capv, audio, hist, cfg, pipe, obs, rec, filev>>

\* SIGINT raises KeyboardInterrupt in the main thread, inside the loop of
\* run(); the handler's locked block sets SHUTTING_DOWN.
MainIntState ==
  /\ main_pc = "loop"
  /\ acquire(state_lock)
  /\ system_state' = SHUTTING_DOWN
  /\ main_pc' = "int_clear"
  /\ UNCHANGED <<state_lock, is_running, now, timers, kb_pc, mon_pc, supv, capv, audio, hist, cfg, pipe, obs, rec, filev>>

MainIntClear ==
  /\ main_pc = "int_clear"
  /\ is_running' = FALSE
  /\ main_pc' = "int_stopcap"
  /\ UNCHANGED <<system_state, state_lock, now, timers, kb_pc, mon_pc, supv, capv, audio, hist, cfg, pipe, obs, rec, filev>>

MainIntStopCapture ==
  /\ main_pc = "int_stopcap"
  /\ stop_capture
  /\ main_pc' = "int_stoprec"
  /\ UNCHANGED <<coord, now, timers, kb_pc, mon_pc, supv, cap_starting, cap_looping, audio, hist, cfg, pipe, obs, rec, filev>>

MainIntStopRecognition ==
  /\ main_pc = "int_stoprec"
  /\ stop_recognition
  /\ main_pc' = "int_sleep"
  /\ UNCHANGED <<coord, now, timers, kb_pc, mon_pc, supv, capv, hist, cfg, pipe, obs, rec, filev>>

\* time.sleep(2), then run() returns.
MainIntReturn ==
  /\ main_pc = "int_sleep"
  /\ main_pc' = "returned"
  /\ UNCHANGED <<coord, now, timers, kb_pc, mon_pc, supv, capv, audio, hist, cfg, pipe, obs, rec, filev>>

\* ---------------------------------------------------------------- keyboard monitor
\* keyboard_monitor_thread: `while self.is_running.is_set():` and the locked
\* state check.  In PAUSED, WAITING_INPUT and AUTHENTICATING the thread
\* sleeps one second inside the `with` block, the lock held.
KbCheck ==
  /\ Alive
  /\ kb_pc = "check"
  /\ IF ~is_running
       THEN kb_pc' = "done" /\ UNCHANGED state_lock
       ELSE /\ acquire(state_lock)
            /\ IF system_state = SHUTTING_DOWN
                 THEN kb_pc' = "done" /\ UNCHANGED state_lock
                 ELSE IF system_state \in {PAUSED, WAITING_INPUT, AUTHENTICATING}
                        THEN kb_pc' = "sleep" /\ state_lock' = "kb"
                        ELSE kb_pc' = "poll" /\ UNCHANGED state_lock
  /\ UNCHANGED <<system_state, is_running, now, timers, main_pc, mon_pc, supv, capv, audio, hist, cfg, pipe, obs, rec, filev>>

KbWake ==
  /\ Alive
  /\ kb_pc = "sleep"
  /\ state_lock' = Released(state_lock)
  /\ kb_pc' = "check"
  /\ UNCHANGED <<system_state, is_running, now, timers, main_pc, mon_pc, supv, capv, audio, hist, cfg, pipe, obs, rec, filev>>

\* select() with a 0.5 s timeout, then readline(): q or x stops the system,
\* any other line is reported and ignored.
KbPoll ==
  /\ Alive
  /\ kb_pc = "poll"
  /\ \E cmd \in (Commands \ {"EOF", "q", "x"}) \cup {NoInput} :
       /\ kb_pc' = "check"
       /\ \E l \in ReadAs(cmd) : line' = Read(l)
  /\ UNCHANGED <<coord, now, timers, main_pc, mon_pc, supv, capv, audio, hist, cfg, pipe, obs>>
  /\ UNCHANGED <<recording, last_end, rp_last, filev>>

\* The line read is q or x: _shutdown_system, its locked block.
KbShutState ==
  /\ Alive
  /\ kb_pc = "poll"
  /\ \E cmd \in {"q", "x"} :
       /\ acquire(state_lock)
       /\ system_state' = SHUTTING_DOWN
       /\ kb_pc' = "sd_clear"
       /\ \E l \in ReadAs(cmd) : line' = Read(l)
  /\ UNCHANGED <<state_lock, is_running, now, timers, main_pc, mon_pc, supv, capv, audio, hist, cfg, pipe, obs>>
  /\ UNCHANGED <<recording, last_end, rp_last, filev>>

KbShutClear ==
  /\ Alive
  /\ kb_pc = "sd_clear"
  /\ is_running' = FALSE
  /\ kb_pc' = "sd_stopcap"
  /\ UNCHANGED <<system_state, state_lock, now, timers, main_pc, mon_pc, supv, capv, audio, hist, cfg, pipe, obs, rec, filev>>

KbShutStopCapture ==
  /\ Alive
  /\ kb_pc = "sd_stopcap"
  /\ stop_capture
  /\ kb_pc' = "sd_stoprec"
  /\ UNCHANGED <<coord, now, timers, main_pc, mon_pc, supv, cap_starting, cap_looping, audio, hist, cfg, pipe, obs, rec, filev>>

\* stop_recognition, then sys.exit(0): SystemExit ends the thread.
KbShutStopRecognition ==
  /\ Alive
  /\ kb_pc = "sd_stoprec"
  /\ stop_recognition
  /\ kb_pc' = "done"
  /\ UNCHANGED <<coord, now, timers, main_pc, mon_pc, supv, capv, hist, cfg, pipe, obs, rec, filev>>

\* ---------------------------------------------------------------- timeout monitor
RuntimeBreach ==
  program_start_time # 0 /\ now - program_start_time > MAX_RUNTIME

SilenceBreach ==
  last_speech_time # 0 /\ now - last_speech_time > SILENCE_TIMEOUT

Breach == RuntimeBreach \/ SilenceBreach

\* timeout_monitor_thread: the loop test, the locked state check and, when
\* ACTIVE, the two threshold checks.  With no breach the thread sleeps 5 s
\* and is back at the loop test.
MonCheck ==
  /\ Alive
  /\ mon_pc = "check"
  /\ IF ~is_running
       THEN mon_pc' = "done" /\ UNCHANGED state_lock
       ELSE /\ acquire(state_lock)
            /\ IF system_state = SHUTTING_DOWN
                 THEN mon_pc' = "done" /\ UNCHANGED state_lock
                 ELSE IF system_state # ACTIVE
                        THEN mon_pc' = "sleep" /\ state_lock' = "mon"
                        ELSE /\ Breach
                             /\ mon_pc' = "trigger"
                             /\ UNCHANGED state_lock
  /\ UNCHANGED <<system_state, is_running, now, timers, main_pc, kb_pc, supv, capv, audio, hist, cfg, pipe, obs, rec, filev>>

MonWake ==
  /\ Alive
  /\ mon_pc = "sleep"
  /\ state_lock' = Released(state_lock)
  /\ mon_pc' = "check"
  /\ UNCHANGED <<system_state, is_running, now, timers, main_pc, kb_pc, supv, capv, audio, hist, cfg, pipe, obs, rec, filev>>

\* A guard that lets the pause through from every state but SHUTTING_DOWN.
PauseUnlessShutdown(st) == st # SHUTTING_DOWN

\* _trigger_auto_pause: `if self.system_state != ACTIVE: return`
PauseAllowed(st) == st = ACTIVE

\* _trigger_auto_pause, the locked block.  When it returns early the
\* monitor thread returns too (`self._trigger_auto_pause(...); return`).
MonTrigger ==
  /\ Alive
  /\ mon_pc = "trigger"
  /\ acquire(state_lock)
  /\ IF PauseAllowed(system_state)
       THEN /\ system_state' = PAUSED
            /\ pauses' = pauses + 1
            /\ mon_pc' = "pause_stopcap"
       ELSE /\ mon_pc' = "done"
            /\ UNCHANGED <<system_state, pauses>>
  /\ UNCHANGED <<state_lock, is_running, now, timers, main_pc, kb_pc, supv, capv, audio, resumes, stale_forwarded, cfg, pipe, obs, rec, filev>>

MonStopCapture ==
  /\ Alive
  /\ mon_pc = "pause_stopcap"
  /\ stop_capture
  /\ mon_pc' = "pause_stoprec"
  /\ UNCHANGED <<coord, now, timers, main_pc, kb_pc, supv, cap_starting, cap_looping, audio, hist, cfg, pipe, obs, rec, filev>>

MonStopRecognition ==
  /\ Alive
  /\ mon_pc = "pause_stoprec"
  /\ stop_recognition
  /\ mon_pc' = "pause_sleep"
  /\ UNCHANGED <<coord, now, timers, main_pc, kb_pc, supv, capv, hist, cfg, pipe, obs, rec, filev>>

\* _wait_for_user_input: the state written under the lock on entry.
WaitEntryState(st) == WAITING_INPUT

\* time.sleep(1), then _wait_for_user_input takes the lock and sets WAITING_INPUT.
MonWaitForUserInput ==
  /\ Alive
  /\ mon_pc = "pause_sleep"
  /\ acquire(state_lock)
  /\ system_state' = WaitEntryState(system_state)
  /\ mon_pc' = "prompt"
  /\ UNCHANGED <<state_lock, is_running, now, timers, main_pc, kb_pc, supv, capv, audio, hist, cfg, pipe, obs, rec, filev>>

\* The prompt loop: the locked SHUTTING_DOWN check before input().
MonPromptCheck ==
  /\ Alive
  /\ mon_pc = "prompt"
  /\ acquire(state_lock)
  /\ mon_pc' = IF system_state = SHUTTING_DOWN THEN "done" ELSE "input"
  /\ UNCHANGED <<coord, now, timers, main_pc, kb_pc, supv, capv, audio, hist, cfg, pipe, obs, rec, filev>>

\* input() returns a line that is neither empty nor q nor x: it is refused
\* and the prompt loops.
MonInput ==
  /\ Alive
  /\ mon_pc = "input"
  /\ \E cmd \in Commands \ {"", "q", "x", "EOF"} :
       /\ mon_pc' = "prompt"
       /\ \E l \in ReadAs(cmd) : line' = Read(l)
  /\ UNCHANGED <<coord, now, timers, main_pc, kb_pc, supv, capv, audio, hist, cfg, pipe, obs>>
  /\ UNCHANGED <<recording, last_end, rp_last, filev>>

\* input() returns q or x, or raises EOFError: _shutdown_system, its locked block.
MonShutState ==
  /\ Alive
  /\ mon_pc = "input"
  /\ \E cmd \in {"q", "x", "EOF"} :
       /\ acquire(state_lock)
       /\ system_state' = SHUTTING_DOWN
       /\ mon_pc' = "sd_clear"
       /\ \E l \in ReadAs(cmd) : line' = Read(l)
  /\ UNCHANGED <<state_lock, is_running, now, timers, main_pc, kb_pc, supv, capv, audio, hist, cfg, pipe, obs>>
  /\ UNCHANGED <<recording, last_end, rp_last, filev>>

MonShutClear ==
  /\ Alive
  /\ mon_pc = "sd_clear"
  /\ is_running' = FALSE
  /\ mon_pc' = "sd_stopcap"
  /\ UNCHANGED <<system_state, state_lock, now, timers, main_pc, kb_pc, supv, capv, audio, hist, cfg, pipe, obs, rec, filev>>

MonShutStopCapture ==
  /\ Alive
  /\ mon_pc = "sd_stopcap"
  /\ stop_capture
  /\ mon_pc' = "sd_stoprec"
  /\ UNCHANGED <<coord, now, timers, main_pc, kb_pc, supv, cap_starting, cap_looping, audio, hist, cfg, pipe, obs, rec, filev>>

MonShutStopRecognition ==
  /\ Alive
  /\ mon_pc = "sd_stoprec"
  /\ stop_recognition
  /\ mon_pc' = "done"
  /\ UNCHANGED <<coord, now, timers, main_pc, kb_pc, supv, capv, hist, cfg, pipe, obs, rec, filev>>

\* The lowest idle identity of a pool, for a thread that is started.
FreeSup == IF sup_pc["sup1"] = "idle" THEN "sup1" ELSE "sup2"

\* A resume that leaves the silence timer as it was.
KeepSpeechTime(t) == last_speech_time

\* _resume_system: what it writes to the state and to the two timers.
ResumeState(st) == ACTIVE
ResumeStartTime(t) == t
ResumeSpeechTime(t) == t

\* input() returns the empty line: _resume_system, one locked block that sets
\* ACTIVE, resets both timers to one reading of the clock and starts a capture
\* thread, a supervisor thread and a monitor thread.  The calling thread then
\* returns; mon_pc becomes the position of the monitor thread just started.
MonResume ==
  /\ Alive
  /\ mon_pc = "input"
  /\ acquire(state_lock)
  /\ resumes < MaxResumes
  /\ \E s \in Sups : sup_pc[s] = "idle"
  /\ system_state' = ResumeState(system_state)
  /\ program_start_time' = ResumeStartTime(now)
  /\ last_speech_time' = ResumeSpeechTime(now)
  /\ cap_starting' = cap_starting + 1
  /\ sup_pc' = [sup_pc EXCEPT ![FreeSup] = "check"]
  /\ sup_count' = [sup_count EXCEPT ![FreeSup] = 0]
  /\ mon_pc' = "check"
  /\ resumes' = resumes + 1
  /\ pauses' = 0
  /\ \E l \in ReadAs("") : line' = Read(l)
  /\ UNCHANGED <<state_lock, is_running, now, main_pc, kb_pc, gen, cap_looping, cap_is_running, audio, stale_forwarded, cfg, pipe, obs>>
  /\ UNCHANGED <<recording, last_end, rp_last, filev>>

\* ---------------------------------------------------------------- supervisor
\* _continuous_speech_recognition_thread: the loop test and the locked state
\* check; when ACTIVE, reconnection_count += 1 and the branch on it.
SupCheck(s) ==
  /\ Alive
  /\ sup_pc[s] = "check"
  /\ IF ~is_running
       THEN sup_pc' = [sup_pc EXCEPT ![s] = "idle"] /\ UNCHANGED <<state_lock, sup_count>>
       ELSE /\ acquire(state_lock)
            /\ IF system_state # ACTIVE
                 THEN /\ sup_pc' = [sup_pc EXCEPT ![s] = "sleep"]
                      /\ state_lock' = s
                      /\ UNCHANGED sup_count
                 ELSE /\ sup_count' = [sup_count EXCEPT ![s] = IF @ = 0 THEN 1 ELSE 2]
                      /\ sup_pc' = [sup_pc EXCEPT ![s] = IF sup_count[s] = 0 THEN "start" ELSE "reset"]
                      /\ UNCHANGED state_lock
  /\ UNCHANGED <<system_state, is_running, now, timers, ctl, gen, capv, audio, hist, cfg, pipe, obs, rec, filev>>

SupWake(s) ==
  /\ Alive
  /\ sup_pc[s] = "sleep"
  /\ state_lock' = Released(state_lock)
  /\ sup_pc' = [sup_pc EXCEPT ![s] = "check"]
  /\ UNCHANGED <<system_state, is_running, now, timers, ctl, sup_count, gen, capv, audio, hist, cfg, pipe, obs, rec, filev>>

\* SimpleStreamingSpeechRecognition._reset_for_reconnection
reset_for_reconnection ==
  /\ audio_queue' = <<>>
  /\ streaming_active' = FALSE

SupReset(s) ==
  /\ Alive
  /\ sup_pc[s] = "reset"
  /\ reset_for_reconnection
  /\ sup_pc' = [sup_pc EXCEPT ![s] = "start"]
  /\ reconnects' = (IF scenario THEN reconnects + 1 ELSE reconnects)
  /\ UNCHANGED <<coord, now, timers, ctl, sup_count, gen, capv, hist, cfg, pipe, final_lost, order>>
  /\ UNCHANGED <<scenario, streaming_start_time, finals_returned, results_taken, rec, filev>>

\* The queue with every frame in it marked as queued before a session of s
\* opens (the entries and their order are untouched).
QueuedBefore(q, s) ==
  [i \in 1..Len(q) |->
     IF q[i] = Sentinel THEN Sentinel ELSE [q[i] EXCEPT !.before = @ \cup {s}]]

\* The record of how a session of s ended.
Ended(s, how) ==
  IF recording = "ends" THEN [last_end EXCEPT ![s] = how] ELSE last_end

\* A `finally` that leaves the flag as it is.
KeepActive(active) == active

\* _run_streaming_recognition, `finally: self.streaming_active = False`
Finally(active) == FALSE

\* time.time() as start_streaming_recognition stores it.  The stamp is read
\* only in the comparison with max_streaming_duration; outside the scenario
\* the clock stops at MaxNow, before the cap can be reached, the comparison
\* is false whatever the stamp, and the stamp is kept at 0.
Stamp(t) == IF scenario THEN t ELSE 0

\* start_streaming_recognition: streaming_active = True, then the blocking
\* _run_streaming_recognition, whose request generator starts draining the queue.
SupStart(s) ==
  /\ Alive
  /\ sup_pc[s] = "start"
  /\ streaming_active' = TRUE
  /\ audio_queue' = QueuedBefore(audio_queue, s)
  /\ gen' = [gen EXCEPT ![s] = TRUE]
  /\ sup_pc' = [sup_pc EXCEPT ![s] = "session"]
  /\ sent' = [sent EXCEPT ![s] = <<>>]
  /\ streaming_start_time' = Stamp(now)
  /\ UNCHANGED <<coord, now, timers, ctl, sup_count, capv, hist, cfg, pipe, final_lost, next_frame, sent_all>>
  /\ UNCHANGED <<scenario, reconnects, finals_returned, results_taken, rec, filev>>

\* A generator without a duration limit.
NeverCapped(t, start) == FALSE

\* _audio_generator's limit: streaming_start_time is set and more than
\* max_streaming_duration seconds have passed since.
CapReached(t, start) == start # 0 /\ t - start > max_streaming_duration

\* A get that leaves the entry on the queue.
Peeked(q) == q

\* queue.Queue.get: the head is returned and removed.
Dequeued(q) == Tail(q)

\* _audio_generator, one turn of its loop: the streaming_active test, then
\* audio_queue.get(timeout=0); None ends the generator, a frame is yielded
\* to the service; past the duration limit the loop is left.
GenStep(s) ==
  /\ Alive
  /\ sup_pc[s] = "session"
  /\ gen[s]
  /\ IF ~streaming_active \/ CapReached(now, streaming_start_time)
       THEN /\ gen' = [gen EXCEPT ![s] = FALSE]
            /\ UNCHANGED <<audio_queue, stale_forwarded, sent, sent_all>>
       ELSE /\ audio_queue # <<>>
            /\ audio_queue' = Dequeued(audio_queue)
            /\ IF Head(audio_queue) = Sentinel
                 THEN /\ gen' = [gen EXCEPT ![s] = FALSE]
                      /\ UNCHANGED <<stale_forwarded, sent, sent_all>>
                 ELSE /\ stale_forwarded' = (stale_forwarded \/ s \in Head(audio_queue).before)
                      /\ IF next_frame = 0
                           THEN UNCHANGED <<sent, sent_all>>
                           ELSE /\ Len(sent_all) < MaxSent
                                /\ sent' = [sent EXCEPT ![s] = Append(@, Head(audio_queue).seq)]
                                /\ sent_all' = Append(sent_all, Head(audio_queue).seq)
                      /\ UNCHANGED gen
  /\ UNCHANGED <<coord, now, timers, ctl, sup_pc, sup_count, capv, streaming_active, resumes, pauses, cfg, pipe, final_lost, next_frame, scen, rec, filev>>

\* recognition_callback, a partial result with text: the first partial of an
\* utterance inserts a placeholder when a Docs writer is present (the result
\* of insert_placeholder is not looked at).
callback_partial ==
  IF current_placeholder_id = 0 /\ docs_writer
    THEN /\ next_id <= MaxIds
         /\ active_placeholders' = active_placeholders \cup {next_id}
         /\ current_placeholder_id' = next_id
         /\ next_id' = next_id + 1
    ELSE UNCHANGED <<active_placeholders, current_placeholder_id, next_id>>

\* The response loop receives a partial result and hands it to the callback.
SessPartial(s) ==
  /\ Alive
  /\ sup_pc[s] = "session"
  /\ callback_partial
  /\ UNCHANGED <<coord, now, timers, ctl, supv, capv, audio, hist, cfg, result_queue, obs, rec, filev>>

\* recognition_callback on the thread of supervisor s, a partial result with
\* text, in two steps, as the callback takes no lock: the test
\* `self.current_placeholder_id is None` with a Docs writer present, ...
PartialCheck(s) ==
  /\ Alive
  /\ sup_pc[s] = "session"
  /\ current_placeholder_id = 0 /\ docs_writer
  /\ sup_pc' = [sup_pc EXCEPT ![s] = "callback"]
  /\ UNCHANGED <<coord, now, timers, ctl, sup_count, gen, capv, audio, hist, cfg, pipe, obs, rec, filev>>

\* ... and the call of insert_placeholder (a request to the Docs service)
\* followed by the registration of the id and its storing in
\* current_placeholder_id.
PartialInsert(s) ==
  /\ Alive
  /\ sup_pc[s] = "callback"
  /\ next_id <= MaxIds
  /\ active_placeholders' = active_placeholders \cup {next_id}
  /\ current_placeholder_id' = next_id
  /\ next_id' = next_id + 1
  /\ sup_pc' = [sup_pc EXCEPT ![s] = "session"]
  /\ UNCHANGED <<coord, now, timers, ctl, sup_count, gen, capv, audio, hist, cfg, result_queue, obs, rec, filev>>

\* recognition_callback, a final result: last_speech_time = time.time()
callback_final_speech_time(t) == t

\* recognition_callback, a final result: the transcript and the current
\* placeholder id are queued, the id is reset, the silence timer restarts.
callback_final ==
  /\ Len(result_queue) < MaxResults
  /\ result_queue' = Append(result_queue, current_placeholder_id)
  /\ current_placeholder_id' = 0
  /\ last_speech_time' = callback_final_speech_time(now)

\* The response loop receives a final result: the callback runs, the loop
\* returns, and `finally` clears streaming_active.
SessFinal(s) ==
  /\ Alive
  /\ sup_pc[s] = "session"
  /\ callback_final
  /\ streaming_active' = Finally(streaming_active)
  /\ last_end' = Ended(s, "final")
  /\ gen' = [gen EXCEPT ![s] = FALSE]
  /\ sup_pc' = [sup_pc EXCEPT ![s] = "post"]
  /\ finals_returned' = (IF scenario THEN finals_returned + 1 ELSE finals_returned)
  /\ UNCHANGED <<coord, now, program_start_time, ctl, sup_count, capv, audio_queue, hist, cfg, active_placeholders, next_id, final_lost, order>>
  /\ UNCHANGED <<scenario, streaming_start_time, reconnects, results_taken>>
  /\ UNCHANGED <<recording, line, rp_last, filev>>

\* A response with several results, each with text: the loop over
\* response.results hands every partial to the callback and, at the first
\* final, hands it over and returns.  The pipeline's variables are threaded
\* through as a record; `done` is the return.
OnPartial(st) ==
  IF st.cur = 0 /\ docs_writer
    THEN [st EXCEPT !.act = @ \cup {st.nid}, !.cur = st.nid, !.nid = @ + 1]
    ELSE st

OnFinal(st) ==
  [st EXCEPT !.q = Append(@, st.cur), !.cur = 0, !.finals = @ + 1, !.done = TRUE]

\* A loop over response.results that goes on after a final.
RECURSIVE HandleAll(_, _)
HandleAll(resp, st) ==
  IF resp = <<>>
    THEN st
    ELSE HandleAll(Tail(resp),
                   IF Head(resp) = "final" THEN OnFinal(st) ELSE OnPartial(st))

RECURSIVE HandleResults(_, _)
HandleResults(resp, st) ==
  IF resp = <<>> \/ st.done
    THEN st
    ELSE HandleResults(Tail(resp),
                       IF Head(resp) = "final" THEN OnFinal(st) ELSE OnPartial(st))

\* The responses with more than one result.
Responses ==
  UNION {[1..n -> {"partial", "final"}] : n \in 2..MaxResponse}

FinalsIn(resp) == Cardinality({i \in 1..Len(resp) : resp[i] = "final"})

SessResponse(s) ==
  /\ Alive
  /\ sup_pc[s] = "session"
  /\ \E resp \in Responses :
       LET st == HandleResults(resp, [cur |-> current_placeholder_id,
                                      act |-> active_placeholders,
                                      nid |-> next_id,
                                      q |-> result_queue,
                                      finals |-> 0,
                                      done |-> FALSE])
       IN /\ st.nid <= MaxIds + 1
          /\ Len(st.q) <= MaxResults
          /\ current_placeholder_id' = st.cur
          /\ active_placeholders' = st.act
          /\ next_id' = st.nid
          /\ result_queue' = st.q
          /\ final_lost' = (final_lost \/ FinalsIn(resp) > st.finals)
          /\ IF st.done
               THEN /\ last_speech_time' = callback_final_speech_time(now)
                    /\ streaming_active' = Finally(streaming_active)
                    /\ gen' = [gen EXCEPT ![s] = FALSE]
                    /\ sup_pc' = [sup_pc EXCEPT ![s] = "post"]
                    /\ last_end' = Ended(s, "final")
               ELSE UNCHANGED <<last_speech_time, streaming_active, gen, sup_pc, last_end>>
  /\ UNCHANGED <<coord, now, program_start_time, ctl, sup_count, capv, audio_queue, hist, cfg, order, scen>>
  /\ UNCHANGED <<recording, line, rp_last, filev>>

\* _run_streaming_recognition is left without a final and without an
\* authentication error: the response loop ended, or an exception was caught
\* and printed by one of the two `except Exception` blocks; `finally` clears
\* streaming_active and the method returns normally in both cases.
SessOver(s, how) ==
  /\ Alive
  /\ sup_pc[s] = "session"
  /\ streaming_active' = Finally(streaming_active)
  /\ gen' = [gen EXCEPT ![s] = FALSE]
  /\ sup_pc' = [sup_pc EXCEPT ![s] = "post"]
  /\ last_end' = Ended(s, how)
  /\ UNCHANGED <<coord, now, timers, ctl, sup_count, capv, audio_queue, hist, cfg, pipe, obs>>
  /\ UNCHANGED <<recording, line, rp_last, filev>>

\* The response stream ends (closed by the service after the request
\* generator ended, or at any moment) or raises an error that is not of the
\* authentication class: `finally` clears streaming_active.
SessEnd(s) == SessOver(s, "completed")

\* The classes of failure that are not authentication errors: any other
\* exception (network, service), and a configuration error (a recognizer or
\* a parameter the service refuses).
FailureClasses == {"error", "config"}

\* Opening the stream or processing a response raises an exception that is
\* not of the authentication class.
SessFail(s) == \E class \in FailureClasses : SessOver(s, class)

\* _auth_state_callback("start") and ("end"): the state each writes.
AuthStartState(st) == AUTHENTICATING
AuthEndState(st) == IF st = AUTHENTICATING THEN ACTIVE ELSE st

\* The session raises an error of the authentication class:
\* _auto_fix_authentication is entered and notifies "start".
SupAuthStart(s) ==
  /\ Alive
  /\ sup_pc[s] = "session"
  /\ acquire(state_lock)
  /\ system_state' = AuthStartState(system_state)
  /\ gen' = [gen EXCEPT ![s] = FALSE]
  /\ sup_pc' = [sup_pc EXCEPT ![s] = "auth_prompt"]
  /\ last_end' = Ended(s, "auth")
  /\ UNCHANGED <<state_lock, is_running, now, timers, ctl, sup_count, capv, audio, hist, cfg, pipe, obs>>
  /\ UNCHANGED <<recording, line, rp_last, filev>>

\* The gcloud check, the auth / skip prompt and the login command: whatever
\* their outcome, _auto_fix_authentication returns through its `finally`,
\* which notifies "end".
SupAuthEnd(s) ==
  /\ Alive
  /\ sup_pc[s] = "auth_prompt"
  /\ acquire(state_lock)
  /\ system_state' = AuthEndState(system_state)
  /\ sup_pc' = [sup_pc EXCEPT ![s] = "finally"]
  /\ \E fixed \in BOOLEAN :
       last_end' = Ended(s, IF fixed THEN "auth_fixed" ELSE "auth_failed")
  /\ UNCHANGED <<state_lock, is_running, now, timers, ctl, sup_count, gen, capv, audio, hist, cfg, pipe, obs>>
  /\ UNCHANGED <<recording, line, rp_last, filev>>

\* _run_streaming_recognition leaves through its `finally`.
SupFinally(s) ==
  /\ Alive
  /\ sup_pc[s] = "finally"
  /\ streaming_active' = Finally(streaming_active)
  /\ sup_pc' = [sup_pc EXCEPT ![s] = "post"]
  /\ UNCHANGED <<coord, now, timers, ctl, sup_count, gen, capv, audio_queue, hist, cfg, pipe, obs, rec, filev>>

\* A supervisor that leaves its loop after every session.
LeaveLoop(st, running) == "idle"

\* After the session: `continue` when ACTIVE and running, else `break`.
AfterSession(st, running) == IF st = ACTIVE /\ running THEN "check" ELSE "idle"

\* After the session: reconnect when ACTIVE and running, else leave the loop.
SupPost(s) ==
  /\ Alive
  /\ sup_pc[s] = "post"
  /\ acquire(state_lock)
  /\ sup_pc' = [sup_pc EXCEPT ![s] = AfterSession(system_state, is_running)]
  /\ UNCHANGED <<coord, now, timers, ctl, sup_count, gen, capv, audio, hist, cfg, pipe, obs, rec, filev>>

\* ---------------------------------------------------------------- capture
\* add_audio_data: the frame is queued only while streaming_active.
add_audio_data ==
  IF streaming_active
    THEN /\ Len(audio_queue) < MaxQueue
         /\ next_frame <= MaxFrames
         /\ audio_queue' = Append(audio_queue, [before |-> {}, seq |-> next_frame])
         /\ next_frame' = (IF next_frame = 0 THEN 0 ELSE next_frame + 1)
    ELSE UNCHANGED <<audio_queue, next_frame>>

\* SimpleAudioCapture.start_capture: self.is_running = True, the stream is opened.
CapStart ==
  /\ Alive
  /\ cap_starting > 0
  /\ cap_is_running' = TRUE
  /\ cap_starting' = cap_starting - 1
  /\ cap_looping' = cap_looping + 1
  /\ UNCHANGED <<coord, now, timers, ctl, supv, audio, hist, cfg, pipe, obs, rec, filev>>

\* One turn of `while self.is_running:`: a frame is read and handed to
\* add_audio_data, or the loop is left and the thread ends.
CapIter ==
  /\ Alive
  /\ cap_looping > 0
  /\ IF cap_is_running
       THEN add_audio_data /\ UNCHANGED cap_looping
       ELSE cap_looping' = cap_looping - 1 /\ UNCHANGED <<audio_queue, next_frame>>
  /\ UNCHANGED <<coord, now, timers, ctl, supv, cap_starting, cap_is_running, streaming_active, hist, cfg, pipe, final_lost, sent, sent_all, scen, rec, filev>>

\* ---------------------------------------------------------------- result processing
\* result_processing_thread, what handling one final leaves in
\* active_placeholders: the entry is deleted only after a successful
\* translation whose update_placeholder call succeeded.
Handled(p, translated, updated) ==
  IF /\ ~transcription_only
     /\ ~disable_translation
     /\ translated
     /\ docs_writer
     /\ p # 0 /\ p \in active_placeholders
     /\ updated
    THEN active_placeholders \ {p}
    ELSE active_placeholders

\* Every final is appended to the document.
WriteAlways(p, translated, updated) == 1

\* result_processing_thread, the number of write_meeting_entry calls for one
\* final: none in the modes without translation or without a writer; after
\* a successful translation one unless a registered placeholder was
\* updated; after a failed translation one, carrying the failure text.
Writes(p, translated, updated) ==
  IF transcription_only \/ disable_translation \/ ~docs_writer
    THEN 0
    ELSE IF translated /\ p # 0 /\ p \in active_placeholders /\ updated
           THEN 0
           ELSE 1

\* The final was resolved into its placeholder: update_placeholder was
\* called and succeeded.
Resolved(p, translated, updated) ==
  /\ ~transcription_only
  /\ ~disable_translation
  /\ translated
  /\ docs_writer
  /\ p # 0 /\ p \in active_placeholders
  /\ updated

NoResult == [taken |-> FALSE]

\* result_processing_thread, one turn of `while self.is_running.is_set():`
\* with a final in the queue: it is taken and handled to the end (translate,
\* update_placeholder or write_meeting_entry, each succeeding or failing).
RpProcess ==
  /\ Alive
  /\ is_running
  /\ result_queue # <<>>
  /\ result_queue' = Tail(result_queue)
  /\ \E translated \in BOOLEAN, updated \in BOOLEAN :
       LET p == Head(result_queue)
       IN /\ active_placeholders' = Handled(p, translated, updated)
          /\ rp_last' = IF recording = "results"
                          THEN [taken |-> TRUE,
                                registered |-> p # 0 /\ p \in active_placeholders,
                                translated |-> translated,
                                updated |-> updated,
                                writes |-> Writes(p, translated, updated),
                                resolved |-> Resolved(p, translated, updated)]
                          ELSE rp_last
  /\ results_taken' = (IF scenario THEN results_taken + 1 ELSE results_taken)
  /\ UNCHANGED <<coord, now, timers, ctl, supv, capv, audio, hist, cfg, current_placeholder_id, next_id, final_lost, order>>
  /\ UNCHANGED <<scenario, streaming_start_time, reconnects, finals_returned>>
  /\ UNCHANGED <<recording, last_end, line, filev>>

\* The state when run() has started its threads.  The coordinator and the
\* audio path run the configuration without a Docs writer.
InitThreads ==
  /\ system_state = ACTIVE
  /\ state_lock = FREE
  /\ is_running = TRUE
  /\ now = 1
  /\ program_start_time = 1
  /\ last_speech_time = 1
  /\ main_pc = "loop"
  /\ kb_pc = "check"
  /\ mon_pc = "check"
  /\ sup_pc = [s \in Sups |-> IF s = "sup1" THEN "check" ELSE "idle"]
  /\ sup_count = [s \in Sups |-> 0]
  /\ cap_starting = 1
  /\ cap_looping = 0
  /\ cap_is_running = FALSE
  /\ streaming_active = FALSE
  /\ audio_queue = <<>>
  /\ gen = [s \in Sups |-> FALSE]
  /\ stale_forwarded = FALSE
  /\ resumes = 0
  /\ pauses = 0
  /\ current_placeholder_id = 0
  /\ active_placeholders = {}
  /\ result_queue = <<>>
  /\ next_id = 1
  /\ final_lost = FALSE
  /\ sent = [s \in Sups |-> <<>>]
  /\ sent_all = <<>>
  /\ streaming_start_time = 0
  /\ reconnects = 0
  /\ finals_returned = 0
  /\ results_taken = 0
  /\ last_end = [s \in Sups |-> "none"]
  /\ line = NoInput
  /\ rp_last = NoResult
  /\ file_pc = "off"
  /\ file_is_running = FALSE
  /\ current_chunk = 0
  /\ file_out = <<>>
  /\ file_len = 0
  /\ chunk_size = 1

Init ==
  /\ InitThreads
  /\ next_frame = 0
  /\ scenario = FALSE
  /\ recording = "off"
  /\ docs_writer = FALSE
  /\ disable_translation = FALSE
  /\ transcription_only = FALSE

MainStep ==
  \/ MainLoopCheck
  \/ MainIntState
  \/ MainIntClear
  \/ MainIntStopCapture
  \/ MainIntStopRecognition
  \/ MainIntReturn

KbStep ==
  \/ KbCheck \/ KbWake \/ KbPoll
  \/ KbShutState \/ KbShutClear \/ KbShutStopCapture \/ KbShutStopRecognition

\* The monitor thread but for its sleep in a state other than ACTIVE.
MonPauseStep ==
  \/ MonCheck \/ MonTrigger \/ MonStopCapture \/ MonStopRecognition
  \/ MonWaitForUserInput \/ MonPromptCheck \/ MonInput \/ MonResume
  \/ MonShutState \/ MonShutClear \/ MonShutStopCapture \/ MonShutStopRecognition

MonStep == MonPauseStep \/ MonWake

SupLoopStep(s) ==
  \/ SupCheck(s) \/ SupWake(s) \/ SupReset(s) \/ SupStart(s)
  \/ SessFinal(s) \/ SessEnd(s) \/ SupPost(s)

SupAuthStep(s) ==
  \/ SupAuthStart(s) \/ SupAuthEnd(s) \/ SupFinally(s)

\* The coordinator: every thread that reads or writes system_state, the
\* running flag or the timers.  The capture loops and the request generators
\* take no step; they write none of these.
Next ==
  \/ Tick
  \/ MainStep
  \/ KbStep
  \/ MonStep
  \/ \E s \in Sups : SupLoopStep(s) \/ SupAuthStep(s)
  \/ RpProcess

Spec == Init /\ [][Next]_vars

\* The audio path: the capture loops, the supervisors with their sessions and
\* request generators, and the pause / resume sequence that stops and restarts
\* them.  The operator gives no command to the keyboard monitor, no SIGINT
\* arrives and no session fails with an authentication error (so the monitor
\* never finds a state to sleep in).
NextAudio ==
  \/ Tick
  \/ MonPauseStep
  \/ \E s \in Sups : SupLoopStep(s) \/ GenStep(s)
  \/ CapStart \/ CapIter
  \/ RpProcess

SpecAudio == Init /\ [][NextAudio]_vars

\* The audio path with every accepted frame numbered in the order of
\* acceptance, so that what each session forwards can be told apart.
InitOrder ==
  /\ InitThreads
  /\ next_frame = 1
  /\ scenario = FALSE
  /\ recording = "off"
  /\ docs_writer = FALSE
  /\ disable_translation = FALSE
  /\ transcription_only = FALSE

\* Sessions end here by the end of the response stream; no result is
\* delivered, so the result queue stays empty.
NextOrder ==
  \/ Tick
  \/ MonPauseStep
  \/ \E s \in Sups :
       \/ SupCheck(s) \/ SupWake(s) \/ SupReset(s) \/ SupStart(s)
       \/ GenStep(s) \/ SessEnd(s) \/ SupPost(s)
  \/ CapStart \/ CapIter

SpecOrder == InitOrder /\ [][NextOrder]_vars

\* The twelve-minute scenario: continuous input, no timeout breach (the
\* monitor takes no step), no command and no interrupt.  A thread's steps
\* take no time: the clock advances only while the session is in progress,
\* its generator running below the limit.  The service returns a final, or
\* ends the response stream, only once the generator has ended; at the end
\* of the input it may return the final of what the connection has heard.
ScenarioLength == 12 * 60
ScenarioEnd == 1 + ScenarioLength

InitScenario ==
  /\ InitThreads
  /\ next_frame = 0
  /\ scenario = TRUE
  /\ recording = "off"
  /\ docs_writer = FALSE
  /\ disable_translation = FALSE
  /\ transcription_only = FALSE

InProgress(s) ==
  /\ sup_pc[s] = "session"
  /\ gen[s]
  /\ streaming_active
  /\ ~CapReached(now, streaming_start_time)

ScenarioTick ==
  /\ now < ScenarioEnd
  /\ \A s \in Sups : sup_pc[s] # "idle" => InProgress(s)
  /\ now' = now + ScenarioStep
  /\ UNCHANGED <<coord, timers, ctl, supv, capv, audio, hist, cfg, pipe, obs, rec, filev>>

ScenarioFinal(s) ==
  /\ sup_pc[s] = "session"
  /\ ~gen[s] \/ (now >= ScenarioEnd /\ streaming_start_time < now)
  /\ SessFinal(s)

ScenarioSessEnd(s) ==
  /\ sup_pc[s] = "session"
  /\ ~gen[s]
  /\ SessEnd(s)

NextScenario ==
  \/ ScenarioTick
  \/ \E s \in Sups :
       \/ SupCheck(s) \/ SupReset(s) \/ SupStart(s) \/ GenStep(s)
       \/ ScenarioFinal(s) \/ ScenarioSessEnd(s) \/ SupPost(s)
  \/ CapStart \/ CapIter
  \/ RpProcess

SpecScenario == InitScenario /\ [][NextScenario]_vars

\* The silence timer: the clock, the timeout monitor with its pause and
\* resume, and the supervisors' sessions delivering partial and final results
\* to the callback with a Docs writer present or failing with an authentication
\* error, the results being processed.
InitSpeech ==
  /\ InitThreads
  /\ next_frame = 0
  /\ scenario = FALSE
  /\ recording = "off"
  /\ docs_writer = TRUE
  /\ disable_translation = FALSE
  /\ transcription_only = FALSE

NextSpeech ==
  \/ Tick
  \/ MonStep
  \/ \E s \in Sups : SupLoopStep(s) \/ SupAuthStep(s) \/ SessPartial(s)
  \/ RpProcess

SpecSpeech == InitSpeech /\ [][NextSpeech]_vars

\* The callback as the supervisors' threads run it: the clock, the timeout
\* monitor with its pause and resume, the supervisors' sessions delivering
\* partial results (test and insertion as separate steps) and final results
\* with a Docs writer present, the results being processed.
InitCallback ==
  /\ InitThreads
  /\ next_frame = 0
  /\ scenario = FALSE
  /\ recording = "off"
  /\ docs_writer = TRUE
  /\ disable_translation = FALSE
  /\ transcription_only = FALSE

NextCallback ==
  \/ Tick
  \/ MonPauseStep
  \/ \E s \in Sups :
       \/ SupCheck(s) \/ SupWake(s) \/ SupReset(s) \/ SupStart(s)
       \/ PartialCheck(s) \/ PartialInsert(s)
       \/ SessFinal(s) \/ SessEnd(s) \/ SupPost(s)
  \/ RpProcess

SpecCallback == InitCallback /\ [][NextCallback]_vars

\* The operator's input: the keyboard monitor and the prompt of the timeout
\* monitor reading lines, the clock, and the supervisors' sessions ending
\* normally or with an authentication error; the line read is recorded.
InitInput ==
  /\ InitThreads
  /\ next_frame = 0
  /\ scenario = FALSE
  /\ recording = "lines"
  /\ docs_writer = FALSE
  /\ disable_translation = FALSE
  /\ transcription_only = FALSE

NextInput ==
  \/ Tick
  \/ KbStep
  \/ MonStep
  \/ \E s \in Sups :
       \/ SupCheck(s) \/ SupWake(s) \/ SupReset(s) \/ SupStart(s)
       \/ SessEnd(s) \/ SupPost(s) \/ SupAuthStep(s)

SpecInput == InitInput /\ [][NextInput]_vars

\* ---------------------------------------------------------------- file-backed capture
\* FileAudioCapture: the samples of the file are numbered from 0; a chunk is
\* the slice audio_data[start_idx:end_idx], the marker is b''.
MaxSamples == 5
MaxChunkSize == 2

Min(a, b) == IF a <= b THEN a ELSE b

\* self.total_chunks = len(self.audio_data) // chunk_size
total_chunks == file_len \div chunk_size

\* start_idx, end_idx of chunk number i
Chunk(i) == <<i * chunk_size, Min(i * chunk_size + chunk_size, file_len)>>

Marker == <<>>

\* start_capture, called on the capture thread: self.is_running = True.
FileStart ==
  /\ file_pc = "new"
  /\ file_is_running' = TRUE
  /\ current_chunk' = 0
  /\ file_pc' = "loop"
  /\ UNCHANGED <<coord, now, timers, ctl, supv, capv, audio, hist, cfg, pipe, obs, rec, file_out, file_len, chunk_size>>

\* One test of `while self.is_running and current_chunk < self.total_chunks`
\* and, when it passes, one pass of the body: the chunk is handed to
\* callback_func and current_chunk is incremented.
FileIter ==
  /\ file_pc = "loop"
  /\ IF file_is_running /\ current_chunk < total_chunks
       THEN /\ file_out' = Append(file_out, Chunk(current_chunk))
            /\ current_chunk' = current_chunk + 1
            /\ UNCHANGED file_pc
       ELSE /\ file_pc' = "marker"
            /\ UNCHANGED <<file_out, current_chunk>>
  /\ UNCHANGED <<coord, now, timers, ctl, supv, capv, audio, hist, cfg, pipe, obs, rec, file_is_running, file_len, chunk_size>>

\* After the loop, however it was left: time.sleep(0.5), callback_func(b'').
FileMarker ==
  /\ file_pc = "marker"
  /\ file_out' = Append(file_out, Marker)
  /\ file_pc' = "finally"
  /\ UNCHANGED <<coord, now, timers, ctl, supv, capv, audio, hist, cfg, pipe, obs, rec, file_is_running, current_chunk, file_len, chunk_size>>

\* `finally: self.is_running = False`
FileFinally ==
  /\ file_pc = "finally"
  /\ file_is_running' = FALSE
  /\ file_pc' = "done"
  /\ UNCHANGED <<coord, now, timers, ctl, supv, capv, audio, hist, cfg, pipe, obs, rec, current_chunk, file_out, file_len, chunk_size>>

\* stop_capture, called by another thread at any moment.
FileStop ==
  /\ file_pc # "off"
  /\ file_is_running' = FALSE
  /\ UNCHANGED <<coord, now, timers, ctl, supv, capv, audio, hist, cfg, pipe, obs, rec, file_pc, current_chunk, file_out, file_len, chunk_size>>

\* A file-backed capture of a file of any length up to MaxSamples, with its
\* thread about to call start_capture.
InitFile ==
  /\ system_state = ACTIVE
  /\ state_lock = FREE
  /\ is_running = TRUE
  /\ now = 1
  /\ program_start_time = 1
  /\ last_speech_time = 1
  /\ main_pc = "loop"
  /\ kb_pc = "check"
  /\ mon_pc = "check"
  /\ sup_pc = [s \in Sups |-> "idle"]
  /\ sup_count = [s \in Sups |-> 0]
  /\ cap_starting = 0
  /\ cap_looping = 0
  /\ cap_is_running = FALSE
  /\ streaming_active = FALSE
  /\ audio_queue = <<>>
  /\ gen = [s \in Sups |-> FALSE]
  /\ stale_forwarded = FALSE
  /\ resumes = 0
  /\ pauses = 0
  /\ current_placeholder_id = 0
  /\ active_placeholders = {}
  /\ result_queue = <<>>
  /\ next_id = 1
  /\ final_lost = FALSE
  /\ next_frame = 0
  /\ sent = [s \in Sups |-> <<>>]
  /\ sent_all = <<>>
  /\ scenario = FALSE
  /\ streaming_start_time = 0
  /\ reconnects = 0
  /\ finals_returned = 0
  /\ results_taken = 0
  /\ recording = "off"
  /\ last_end = [s \in Sups |-> "none"]
  /\ line = NoInput
  /\ rp_last = NoResult
  /\ docs_writer = FALSE
  /\ disable_translation = FALSE
  /\ transcription_only = FALSE
  /\ file_pc = "new"
  /\ file_is_running = FALSE
  /\ current_chunk = 0
  /\ file_out = <<>>
  /\ file_len \in 0..MaxSamples
  /\ chunk_size \in 1..MaxChunkSize

NextFile == FileStart \/ FileIter \/ FileMarker \/ FileFinally \/ FileStop

SpecFile == InitFile /\ [][NextFile]_vars

\* Session failures: one supervisor whose sessions end normally, fail with an
\* authentication error (the repair succeeding or not) or fail with another
\* exception, with the keyboard monitor able to stop the system; how each
\* session ended is recorded.
InitErr ==
  /\ InitThreads
  /\ next_frame = 0
  /\ scenario = FALSE
  /\ recording = "ends"
  /\ docs_writer = FALSE
  /\ disable_translation = FALSE
  /\ transcription_only = FALSE

NextErr ==
  \/ KbStep
  \/ \E s \in Sups :
       \/ SupCheck(s) \/ SupWake(s) \/ SupReset(s) \/ SupStart(s)
       \/ SessEnd(s) \/ SessFail(s) \/ SupPost(s)
       \/ SupAuthStart(s) \/ SupAuthEnd(s) \/ SupFinally(s)

SpecErr == InitErr /\ [][NextErr]_vars

\* The placeholder pipeline: one supervisor's sessions delivering partial and
\* final results to recognition_callback, and the result-processing thread,
\* under every configuration create_mvp_config_from_args can produce
\* (transcription_only switches translation and Docs output off).
InitPipe ==
  /\ InitThreads
  /\ next_frame = 0
  /\ scenario = FALSE
  /\ recording = "results"
  /\ docs_writer \in BOOLEAN
  /\ disable_translation \in BOOLEAN
  /\ transcription_only \in BOOLEAN
  /\ transcription_only => (disable_translation /\ ~docs_writer)

NextPipe ==
  \/ \E s \in Sups :
       \/ SupCheck(s) \/ SupReset(s) \/ SupStart(s)
       \/ SessPartial(s) \/ SessFinal(s) \/ SessResponse(s) \/ SessEnd(s)
       \/ SupPost(s)
  \/ RpProcess

SpecPipe == InitPipe /\ [][NextPipe]_vars

\* The monitor and the supervisors under a fair scheduler: the steps a thread
\* takes by itself (anything but waiting for the operator or for a response
\* of the service) are taken whenever the thread can run again and again,
\* the lock is handed to a thread that keeps asking for it, and a session
\* and an authentication attempt come to their end (the request generator
\* stops at max_streaming_duration, the login command has a timeout).  No
\* SIGINT arrives and the operator gives no command to the keyboard monitor.
MonProgram ==
  \/ MonCheck \/ MonWake \/ MonTrigger \/ MonStopCapture \/ MonStopRecognition
  \/ MonWaitForUserInput \/ MonPromptCheck

SupProgram(s) ==
  \/ SupCheck(s) \/ SupWake(s) \/ SupReset(s) \/ SupStart(s) \/ SessEnd(s)
  \/ SupPost(s) \/ SupAuthEnd(s) \/ SupFinally(s)

NextLive ==
  \/ Tick
  \/ MonStep
  \/ \E s \in Sups : SupLoopStep(s) \/ SupAuthStep(s)
  \/ RpProcess

SpecLive ==
  /\ Init /\ [][NextLive]_vars
  /\ SF_vars(MonProgram)
  /\ \A s \in Sups : SF_vars(SupProgram(s))

\* Quitting: the main loop, the keyboard monitor and the supervisors with
\* their sessions and authentication attempts.  Each thread goes on with its
\* own steps (the main loop its checks, the thread in _shutdown_system its
\* remaining statements, a supervisor its loop), whereas a command and an
\* interrupt are the operator's and need not come.
MainProgram ==
  \/ MainLoopCheck
  \/ MainIntClear \/ MainIntStopCapture \/ MainIntStopRecognition \/ MainIntReturn

KbProgram ==
  \/ KbCheck \/ KbWake
  \/ KbShutClear \/ KbShutStopCapture \/ KbShutStopRecognition

NextQuit ==
  \/ MainStep
  \/ KbStep
  \/ \E s \in Sups : SupLoopStep(s) \/ SupAuthStep(s)

SpecQuit ==
  /\ Init /\ [][NextQuit]_vars
  /\ SF_vars(MainProgram)
  /\ SF_vars(KbProgram)
  /\ \A s \in Sups : SF_vars(SupProgram(s))

\* Pausing: the clock, the timeout monitor with its pause sequence and
\* prompt, the keyboard monitor without a quit command, and the supervisors.
\* threading.Lock hands a released lock to no thread in particular (a thread
\* that releases it and asks for it again may get it before a thread that
\* is waiting), so a thread is only sure to take a step that stays possible:
\* each thread's own steps are weakly fair.
NextPause ==
  \/ Tick
  \/ MonPauseStep
  \/ KbCheck \/ KbWake \/ KbPoll
  \/ \E s \in Sups : SupLoopStep(s)

SpecPause ==
  /\ Init /\ [][NextPause]_vars
  /\ WF_vars(MonProgram)
  /\ WF_vars(KbProgram)
  /\ \A s \in Sups : WF_vars(SupProgram(s))

\* The same with a lock that every thread asking for it often enough gets.
SpecPauseFairLock ==
  /\ Init /\ [][NextPause]_vars
  /\ SF_vars(MonProgram)
  /\ WF_vars(KbProgram)
  /\ \A s \in Sups : WF_vars(SupProgram(s))

\* ---------------------------------------------------------------- properties
\* C1: SHUTTING_DOWN is terminal: once system_state is SHUTTING_DOWN no
\* later step (resume, wait for input, authentication start or end) changes it.
C1_ShuttingDownTerminal ==
  [][system_state = SHUTTING_DOWN => system_state' = SHUTTING_DOWN]_vars

\* C2: while system_state is WAITING_INPUT the audio path is fully stopped:
\* streaming_active is FALSE (so no open session's generator forwards a
\* frame) and no capture loop is running with its flag set.
C2_StoppedWhileWaiting ==
  system_state = WAITING_INPUT =>
    /\ ~streaming_active
    /\ (cap_looping = 0 \/ ~cap_is_running)

\* C3: PAUSED is entered only from ACTIVE, the locked block of
\* _trigger_auto_pause changes the state only when it finds ACTIVE (and
\* then to PAUSED), and between start-up or a resume and the next resume
\* there is at most one ACTIVE -> PAUSED transition.
C3_SinglePause ==
  [][ /\ (system_state' = PAUSED /\ system_state # PAUSED) => system_state = ACTIVE
      /\ (mon_pc = "trigger" /\ mon_pc' # "trigger" /\ system_state' # system_state)
           => (system_state = ACTIVE /\ system_state' = PAUSED)
      /\ pauses' <= 1 ]_vars

\* A second pause: the system has been resumed once and is PAUSED again.
C3_Witness == resumes = 1 /\ pauses = 1 /\ system_state = PAUSED

\* C4: a breach leads to a pause: from a state where the system is ACTIVE,
\* running and over one of the two thresholds, PAUSED is eventually entered
\* (or the pause sequence is already at the operator's prompt), unless the
\* breach ends (a final result arrives) or the system is shut down.
C4_BreachLeadsToPause ==
  (system_state = ACTIVE /\ is_running /\ Breach)
    ~> \/ system_state \in {PAUSED, WAITING_INPUT}
       \/ ~Breach
       \/ ~is_running
       \/ system_state = SHUTTING_DOWN

\* C5: a resume resets both timers: right after _resume_system the state is
\* ACTIVE, program_start_time and last_speech_time both equal the current
\* clock reading, and neither timeout is breached.
C5_ResumeResetsTimers ==
  [][resumes' = resumes + 1 =>
       /\ system_state' = ACTIVE
       /\ program_start_time' = now'
       /\ last_speech_time' = now'
       /\ ~Breach']_vars

\* The system has just been resumed from WAITING_INPUT after a silence breach.
C5_Witness ==
  /\ resumes = 1 /\ pauses = 0 /\ system_state = ACTIVE
  /\ now > 1 /\ program_start_time = now /\ last_speech_time = now

\* C6: a resume is applied only when system_state is WAITING_INPUT at that
\* moment.
C6_ResumeOnlyWhenWaiting ==
  [][resumes' = resumes + 1 => system_state = WAITING_INPUT]_vars

\* C7: AUTHENTICATING is entered only from ACTIVE (an authentication "start"
\* in PAUSED, WAITING_INPUT or SHUTTING_DOWN leaves the state alone), and an
\* authentication "end" moves AUTHENTICATING to ACTIVE and nothing else.
C7_AuthOnlyFromActive ==
  [][ /\ (system_state' = AUTHENTICATING /\ system_state # AUTHENTICATING)
           => system_state = ACTIVE
      /\ (\E s \in Sups : sup_pc[s] = "auth_prompt" /\ sup_pc'[s] = "finally")
           => system_state' = IF system_state = AUTHENTICATING THEN ACTIVE ELSE system_state
    ]_vars

\* C8: a final result always clears its placeholder: when the
\* result-processing thread has handled a final that carried a placeholder
\* id, that id is no longer in active_placeholders.
C8_FinalClearsPlaceholder ==
  [][(result_queue # <<>> /\ result_queue' = Tail(result_queue) /\ Head(result_queue) # 0)
       => Head(result_queue) \notin active_placeholders']_vars

\* C9: frames queued before a session opens are discarded: no session
\* forwards a frame that was put on the queue before it started.
C9_StaleFramesDiscarded == ~stale_forwarded

\* C11: a supervisor whose session has ended reconnects without waiting: every
\* step it takes between the end of a session and the start of the next
\* while the state is ACTIVE and the running flag is set brings it nearer to
\* the next session (locked check, reset, start) and never to its sleep or
\* its exit; the reset and the start themselves depend on nothing, and no
\* thread sleeps with the lock while the state is ACTIVE.
C11_ReconnectWithoutWait ==
  [][\A s \in Sups :
       /\ system_state = ACTIVE => state_lock = FREE
       /\ (sup_pc[s] \in {"post", "check"} /\ sup_pc'[s] # sup_pc[s]
              /\ system_state = ACTIVE /\ is_running)
            => sup_pc'[s] \in (IF sup_pc[s] = "post" THEN {"check"} ELSE {"start", "reset"})
       /\ (sup_pc[s] = "reset" /\ sup_pc'[s] # "reset") => sup_pc'[s] = "start"
       /\ (sup_pc[s] = "start" /\ sup_pc'[s] # "start") => sup_pc'[s] = "session"
    ]_vars

\* A supervisor is in a session it opened by a reconnect that followed an
\* earlier reconnect, the system ACTIVE and running.
C11_Witness ==
  \E s \in Sups :
    /\ sup_pc[s] = "session" /\ sup_count[s] = 2
    /\ system_state = ACTIVE /\ is_running

\* C12: a final result is handed over exactly once: every final with text
\* that the service returns reaches the callback (and so result_queue), also
\* when one response carries several results.
C12_FinalHandedOverOnce == ~final_lost

\* C14: the interrupt takes the path of the q/x command: once the handler of
\* run() has done its four steps (it is in its final sleep), the state is
\* SHUTTING_DOWN and the running flag is cleared.
C14_InterruptShutsDown ==
  main_pc = "int_sleep" => (system_state = SHUTTING_DOWN /\ ~is_running)

\* C15: transitions are serialised through state_lock: system_state is
\* written only in a step that enters the lock (nobody held it), the lock
\* passes from one thread to the next only through FREE, and the thread that
\* holds it is the one sleeping inside its `with` block, so that at most one
\* thread is inside at a time.
LockHolders ==
  {t \in {"kb", "mon"} \cup Sups :
     \/ t = "kb" /\ kb_pc = "sleep"
     \/ t = "mon" /\ mon_pc = "sleep"
     \/ t \in Sups /\ sup_pc[t] = "sleep"}

C15_WritesUnderLock ==
  [][/\ system_state' # system_state => (state_lock = FREE /\ state_lock' = FREE)
     /\ state_lock' # state_lock => (state_lock = FREE \/ state_lock' = FREE)
     /\ LockHolders = (IF state_lock = FREE THEN {} ELSE {state_lock})
    ]_vars

\* A thread sleeps inside its `with` block while another thread is about to
\* write the state.
C15_Witness ==
  /\ state_lock # FREE
  /\ \E s \in Sups : sup_pc[s] = "auth_prompt"

\* C17: the supervisor calls start_streaming_recognition only at a moment
\* when the state is ACTIVE.
C17_StartOnlyWhenActive ==
  [][\A s \in Sups :
       (sup_pc[s] = "start" /\ sup_pc'[s] = "session") => system_state = ACTIVE
    ]_vars

\* C18: at most one streaming session drains the audio queue: never two
\* supervisors in a session, never two generators running.
C18_SingleConsumer ==
  Cardinality({s \in Sups : sup_pc[s] = "session" \/ gen[s]}) <= 1

\* C19: at most one capture loop delivers frames to add_audio_data.
C19_SingleCaptureLoop ==
  ~(cap_looping > 1 /\ cap_is_running)

\* C20: the supervisor leaves its loop only when the state is SHUTTING_DOWN
\* or the running flag is cleared.
C20_ExitOnlyOnShutdown ==
  [][\A s \in Sups :
       (sup_pc[s] # "idle" /\ sup_pc'[s] = "idle")
         => (system_state = SHUTTING_DOWN \/ ~is_running)
    ]_vars

\* C13: frames go out in production order and once: what a session has
\* forwarded is strictly increasing in the numbers add_audio_data gave out
\* (a subsequence of the accepted frames, in their order), every forwarded
\* frame was accepted, and no number occurs twice among all frames forwarded
\* by all sessions.
C13_ForwardedInOrderOnce ==
  /\ \A s \in Sups : \A i, j \in 1..Len(sent[s]) : i < j => sent[s][i] < sent[s][j]
  /\ \A i \in 1..Len(sent_all) : sent_all[i] >= 1 /\ sent_all[i] < next_frame
  /\ \A i, j \in 1..Len(sent_all) : i < j => sent_all[i] # sent_all[j]

\* Two sessions have forwarded frames, one of them more than one.
C13_Witness ==
  /\ \A s \in Sups : sent[s] # <<>>
  /\ \E s \in Sups : Len(sent[s]) >= 2

\* C16: the twelve-minute scenario.  The number of reconnects never exceeds
\* 3; once the input has ended and the connection is in progress again it
\* is 2 or 3; every final the service returned is on result_queue or has
\* been taken from it, none twice and none missing.
C16_ScenarioReconnects ==
  scenario =>
    /\ reconnects <= 3
    /\ (now >= ScenarioEnd /\ InProgress("sup1")) => reconnects \in {2, 3}
    /\ finals_returned = results_taken + Len(result_queue)

\* The scenario at its end after three reconnects, a final returned at each
\* end of a connection and all three handled.
C16_Witness ==
  /\ scenario
  /\ now >= ScenarioEnd
  /\ InProgress("sup1")
  /\ reconnects = 3
  /\ finals_returned = 3
  /\ results_taken = 3

\* C26: the state becomes WAITING_INPUT only from PAUSED: a state written
\* during the pause sequence is not overwritten by _wait_for_user_input.
C26_WaitingOnlyFromPaused ==
  [][(system_state' = WAITING_INPUT /\ system_state # WAITING_INPUT)
       => system_state = PAUSED]_vars

\* C25: a session ends at its first final: the step that hands a final to
\* the callback queues exactly one entry, takes the supervisor out of the
\* session with streaming_active false, and hands over nothing after the
\* final (no later partial of the same response opens a placeholder); as
\* results are handed over only inside a session, a session delivers at
\* most one final.
C25_SessionEndsAtFinal ==
  [][/\ Len(result_queue') > Len(result_queue)
         => /\ Len(result_queue') = Len(result_queue) + 1
            /\ ~streaming_active'
            /\ current_placeholder_id' = 0
            /\ \E s \in Sups : sup_pc[s] = "session" /\ sup_pc'[s] = "post"
     /\ (\/ Len(result_queue') > Len(result_queue)
         \/ current_placeholder_id' # current_placeholder_id)
         => \E s \in Sups : sup_pc[s] = "session"
    ]_vars

\* A response with results after its first final has been handled, with a
\* Docs writer present: the session is over, one entry is queued.
C25_Witness ==
  /\ final_lost
  /\ docs_writer
  /\ Len(result_queue) = 1
  /\ \E s \in Sups : sup_pc[s] = "post"

\* C28: a final whose translation succeeded, with a Docs writer: a registered
\* placeholder that update_placeholder resolves means no append; a failed
\* update means one append; no registered placeholder means one append.  No
\* final is both resolved and appended, and whatever failed, the thread
\* takes the next final.
C28_ResolveOrAppend ==
  rp_last.taken =>
    /\ (rp_last.translated /\ docs_writer /\ ~disable_translation /\ ~transcription_only)
         => /\ (rp_last.registered /\ rp_last.updated)
                 => (rp_last.resolved /\ rp_last.writes = 0)
            /\ (rp_last.registered /\ ~rp_last.updated)
                 => (~rp_last.resolved /\ rp_last.writes = 1)
            /\ ~rp_last.registered
                 => (~rp_last.resolved /\ rp_last.writes = 1)
    /\ ~(rp_last.resolved /\ rp_last.writes > 0)
    /\ (is_running /\ result_queue # <<>>) => ENABLED RpProcess

\* The fallback: the update of a registered placeholder failed and the entry
\* was appended; the next final is waiting.
C28_Witness ==
  /\ rp_last.taken
  /\ rp_last.registered /\ rp_last.translated /\ ~rp_last.updated
  /\ rp_last.writes = 1
  /\ result_queue # <<>>

\* C21: after a credential refresh that failed or was declined the
\* supervisor stops: it starts no further session and no further refresh.
C21_StopAfterFailedRefresh ==
  [][\A s \in Sups :
       last_end[s] = "auth_failed"
         => /\ ~(sup_pc[s] = "start" /\ sup_pc'[s] = "session")
            /\ ~(sup_pc[s] = "session" /\ sup_pc'[s] = "auth_prompt")
    ]_vars

\* C22: an exception that is not an authentication error ends the session
\* with streaming_active false and leaves the supervisor in its loop; while
\* the state is ACTIVE and the running flag set, the supervisor's steps after
\* it lead to the next session (post, check, reset, start), whatever the
\* number of failures before.
C22_FailureFeedsReconnect ==
  [][\A s \in Sups :
       /\ (sup_pc[s] = "session" /\ sup_pc'[s] # "session" /\ last_end'[s] = "error")
            => (sup_pc'[s] = "post" /\ ~streaming_active')
       /\ (last_end[s] = "error" /\ sup_pc'[s] # sup_pc[s]
              /\ system_state = ACTIVE /\ is_running)
            => /\ sup_pc[s] = "post" => sup_pc'[s] = "check"
               /\ sup_pc[s] = "check" => sup_pc'[s] = "reset"
               /\ sup_pc[s] = "reset" => sup_pc'[s] = "start"
               /\ sup_pc[s] = "start" => sup_pc'[s] = "session"
    ]_vars

\* A session running that was started after a session failed.
C22_Witness ==
  \E s \in Sups :
    /\ last_end[s] = "error"
    /\ sup_pc[s] = "session"
    /\ sup_count[s] >= 2
    /\ system_state = ACTIVE /\ is_running

\* C23: a configuration error is fatal: after a session ended with one the
\* supervisor starts no further session.
C23_ConfigurationErrorFatal ==
  [][\A s \in Sups :
       last_end[s] = "config" => ~(sup_pc[s] = "start" /\ sup_pc'[s] = "session")
    ]_vars

\* C24: the duration cap.  A frame is forwarded from audio_queue only while
\* no more than max_streaming_duration has elapsed since the session started;
\* a generator that ends on the cap leaves its session running and the state
\* as it is (no error), and the session that ends after it is followed by the
\* supervisor's check after the session and, from there, by the reconnect.
C24_DurationCap ==
  [][\A s \in Sups :
       LET over == streaming_start_time # 0
                     /\ now - streaming_start_time > max_streaming_duration
       IN /\ (/\ sup_pc[s] = "session" /\ sup_pc' = sup_pc /\ gen[s]
               /\ audio_queue # <<>>
               /\ Len(audio_queue') = Len(audio_queue) - 1)
               => ~over
          /\ (scenario /\ sup_pc[s] = "session" /\ gen[s] /\ streaming_active /\ over)
               => /\ sup_pc'[s] = "session"
                  /\ system_state' = system_state
                  /\ gen'[s] => gen' = gen
          /\ (scenario /\ sup_pc[s] = "session" /\ ~gen[s] /\ over
                 /\ sup_pc'[s] # "session")
               => (sup_pc'[s] = "post" /\ ~streaming_active'
                     /\ system_state' = system_state)
          /\ (scenario /\ sup_pc[s] = "post" /\ sup_pc'[s] # "post"
                 /\ system_state = ACTIVE /\ is_running)
               => (sup_pc'[s] = "check" /\ reconnects' = reconnects)
          /\ (scenario /\ sup_pc[s] = "reset" /\ sup_pc'[s] # "reset")
               => (sup_pc'[s] = "start" /\ reconnects' = reconnects + 1)
    ]_vars

\* A session in progress that was started by the reconnect after a session
\* ended on the cap, with a frame waiting to be forwarded.
C24_Witness ==
  /\ scenario
  /\ reconnects = 1
  /\ streaming_start_time > 1 + max_streaming_duration
  /\ InProgress("sup1")
  /\ audio_queue # <<>>

\* C29: every final result sets last_speech_time to the current time, and
\* last_speech_time changes in no other step than the delivery of a final
\* and _resume_system (its value at start-up is the one run() wrote).
C29_SpeechTimeWriters ==
  [][/\ Len(result_queue') > Len(result_queue) => last_speech_time' = now
     /\ last_speech_time' # last_speech_time
          => \/ /\ Len(result_queue') = Len(result_queue) + 1
                /\ \E s \in Sups : sup_pc[s] = "session" /\ sup_pc'[s] = "post"
                /\ last_speech_time' = now
             \/ /\ resumes' = resumes + 1
                /\ system_state' = ACTIVE
                /\ last_speech_time' = now
    ]_vars

\* A final delivered later than start-up, before any resume, after a partial
\* opened a placeholder: the silence timer restarted at the delivery.
C29_Witness ==
  /\ resumes = 0
  /\ last_speech_time > 1
  /\ last_speech_time = now
  /\ Len(result_queue) = 1
  /\ Head(result_queue) # 0

\* C27: one placeholder open at a time: a placeholder is inserted only
\* while current_placeholder_id is none, so that between two insertions a
\* final has reset it.
C27_OnePlaceholderOpen ==
  [][(\E p \in active_placeholders' : p \notin active_placeholders)
       => current_placeholder_id = 0]_vars

\* C30: unrecognized input changes nothing: a line read while the state is
\* ACTIVE whose command is neither q nor x, and a line read while the state
\* is WAITING_INPUT whose command is neither empty nor q nor x, leaves
\* system_state, both timers and the running flag as they are and starts or
\* stops no supervisor, capture or recognition.
C30_UnrecognizedIgnored ==
  [][LET read == \/ kb_pc = "poll" /\ kb_pc' # "poll"
                 \/ mon_pc = "input" /\ mon_pc' # "input"
         cmd == Normalise(line')
     IN (/\ read
         /\ line' \in Lines
         /\ \/ system_state = ACTIVE /\ cmd \notin {"q", "x"}
            \/ system_state = WAITING_INPUT /\ cmd \notin {"", "q", "x"})
          => /\ system_state' = system_state
             /\ program_start_time' = program_start_time
             /\ last_speech_time' = last_speech_time
             /\ is_running' = is_running
             /\ sup_pc' = sup_pc
             /\ cap_starting' = cap_starting
             /\ cap_is_running' = cap_is_running
             /\ streaming_active' = streaming_active
    ]_vars

\* C31: the keyboard monitor takes a line from stdin only while the state is
\* ACTIVE or WAITING_INPUT, never while it is AUTHENTICATING or PAUSED,
\* whatever happens between its state check and its poll.
C31_KeyboardReadsOnlyWhenListening ==
  [][(kb_pc = "poll" /\ kb_pc' # "poll" /\ line' \in Lines)
       => system_state \in {ACTIVE, WAITING_INPUT}]_vars

\* C32: the order of a shutdown.  On each path (the keyboard monitor's and
\* the pause prompt's _shutdown_system, the interrupt handler of run()) the
\* state is set to SHUTTING_DOWN, then the audio source is stopped, then the
\* sentinel is put on the audio queue; and run() returns, ending the
\* process, only when no path is still between these steps.
C32_ShutdownOrder ==
  [][/\ (kb_pc' = "sd_clear" /\ kb_pc # "sd_clear") => system_state' = SHUTTING_DOWN
     /\ (mon_pc' = "sd_clear" /\ mon_pc # "sd_clear") => system_state' = SHUTTING_DOWN
     /\ (main_pc' = "int_clear" /\ main_pc # "int_clear") => system_state' = SHUTTING_DOWN
     /\ (kb_pc' = "sd_stopcap" /\ kb_pc # "sd_stopcap") => kb_pc = "sd_clear"
     /\ (mon_pc' = "sd_stopcap" /\ mon_pc # "sd_stopcap") => mon_pc = "sd_clear"
     /\ (main_pc' = "int_stopcap" /\ main_pc # "int_stopcap") => main_pc = "int_clear"
     /\ (kb_pc' = "sd_stoprec" /\ kb_pc # "sd_stoprec")
          => (kb_pc = "sd_stopcap" /\ ~cap_is_running')
     /\ (mon_pc' = "sd_stoprec" /\ mon_pc # "sd_stoprec")
          => (mon_pc = "sd_stopcap" /\ ~cap_is_running')
     /\ (main_pc' = "int_stoprec" /\ main_pc # "int_stoprec")
          => (main_pc = "int_stopcap" /\ ~cap_is_running')
     /\ (Len(audio_queue') > Len(audio_queue)
           /\ audio_queue'[Len(audio_queue')] = Sentinel)
          => \/ kb_pc = "sd_stoprec" /\ kb_pc' = "done"
             \/ mon_pc = "sd_stoprec" /\ mon_pc' = "done"
             \/ main_pc = "int_stoprec" /\ main_pc' = "int_sleep"
             \/ mon_pc = "pause_stoprec"
     /\ (main_pc' = "returned" /\ main_pc # "returned")
          => /\ kb_pc \notin {"sd_clear", "sd_stopcap", "sd_stoprec"}
             /\ mon_pc \notin {"sd_clear", "sd_stopcap", "sd_stoprec"}
    ]_vars

\* C33: a file-backed capture run delivers its chunks in file order, each
\* once; the empty frame is delivered once, after the last chunk of the
\* file and only then: never before a data chunk and never when stop_capture
\* ended the run before the end of the file.
C33_FileChunksThenMarker ==
  /\ \A i \in 1..Len(file_out) :
       \/ file_out[i] = Chunk(i - 1) /\ i <= total_chunks
       \/ /\ file_out[i] = Marker
          /\ i = Len(file_out)
          /\ i = total_chunks + 1
  /\ (file_pc = "done" /\ current_chunk = total_chunks)
       => (Len(file_out) = total_chunks + 1 /\ file_out[Len(file_out)] = Marker)

\* C34: the sentinel of a stop_recognition does not outlive the session it
\* was meant to stop, and a stop is not undone by the next start: when a
\* session starts, the queue holds no sentinel put there before, and the
\* reset before a reconnect does not throw away a sentinel whose stop no
\* session has seen.
C34_SentinelNotStale ==
  [][\A s \in Sups :
       /\ (sup_pc[s] = "start" /\ sup_pc'[s] = "session")
            => \A i \in 1..Len(audio_queue') : audio_queue'[i] # Sentinel
       /\ (sup_pc[s] = "reset" /\ sup_pc'[s] = "start")
            => \A i \in 1..Len(audio_queue) : audio_queue[i] # Sentinel
    ]_vars

\* C35: once a quit command has been accepted or an interrupt has been
\* caught, run() eventually returns.
C35_QuitLeadsToReturn ==
  (kb_pc = "sd_clear" \/ main_pc = "int_clear") ~> main_pc = "returned"

\* C36: after an auto-pause has set PAUSED the pausing thread eventually
\* gets state_lock and the state becomes WAITING_INPUT.
C36_PausedLeadsToWaiting ==
  (system_state = PAUSED) ~> (system_state = WAITING_INPUT)

\* C37: no deadlock on state_lock.  The thread that holds the lock across
\* steps is a poller in its one-second sleep, and only that: a thread that
\* is about to ask for the lock, that waits for the operator's line, that is
\* inside a session or an authentication attempt (the network, the queue),
\* or that has ended, does not hold it; so the holder's next step releases
\* the lock and every request for it is eventually answerable.
C37_NoWaitUnderLock ==
  /\ state_lock \in {FREE, "kb", "mon"} \cup Sups
  /\ state_lock = "kb" <=> kb_pc = "sleep"
  /\ state_lock = "mon" <=> mon_pc = "sleep"
  /\ \A s \in Sups : state_lock = s <=> sup_pc[s] = "sleep"
  /\ (Alive /\ state_lock = "kb") => ENABLED KbWake
  /\ (Alive /\ state_lock = "mon") => ENABLED MonWake
  /\ \A s \in Sups : (Alive /\ state_lock = s) => ENABLED SupWake(s)

\* A supervisor sleeps with the lock while the prompt waits for the
\* operator's line and the keyboard monitor is about to ask for the lock.
C37_Witness ==
  /\ state_lock \in Sups
  /\ mon_pc = "input"
  /\ kb_pc = "check"
  /\ Alive

\* C38: a placeholder left open by a session that ended without a final
\* stays the current one.  While a placeholder is current and no supervisor
\* is inside a session (the session that opened it is over, no final has
\* come), no step replaces it and no step inserts another; and a final that
\* arrives while a placeholder is current is queued with that placeholder.
C38_PlaceholderKept ==
  [][/\ (current_placeholder_id # 0 /\ \A s \in Sups : sup_pc[s] # "session")
          => /\ current_placeholder_id' = current_placeholder_id
             /\ active_placeholders' \subseteq active_placeholders
     /\ (current_placeholder_id # 0 /\ Len(result_queue') > Len(result_queue))
          => result_queue'[Len(result_queue')] = current_placeholder_id
    ]_vars

\* C39: the finals on result_queue are processed first in, first out, one
\* at a time and each at most once; the thread that processes them takes the
\* next one in every coordinator state, and an entry stays unprocessed only
\* when the running flag was cleared before it was taken.
C39_ResultsProcessedInOrder ==
  /\ []((result_queue # <<>> /\ is_running) => ENABLED RpProcess)
  /\ [][Len(result_queue') < Len(result_queue)
          => result_queue' = Tail(result_queue)]_vars

\* C40: the "start" and "end" notifications of a refresh attempt come in
\* pairs that are never nested: at most one attempt is between its "start"
\* and its "end" at any time, and system_state is AUTHENTICATING only while
\* an attempt is between the two.
C40_AuthPairsNotNested ==
  /\ Cardinality({s \in Sups : sup_pc[s] = "auth_prompt"}) <= 1
  /\ system_state = AUTHENTICATING => \E s \in Sups : sup_pc[s] = "auth_prompt"

\* C10: when run() returns after a quit command, the thread that accepted
\* the command has cleared the running flag and invoked stop_capture and
\* stop_recognition.
C10_StopsBeforeExit ==
  main_pc = "returned" =>
    /\ ~is_running
    /\ kb_pc \notin {"sd_clear", "sd_stopcap", "sd_stoprec"}
    /\ mon_pc \notin {"sd_clear", "sd_stopcap", "sd_stoprec"}
====
